---- MODULE Spec2Model ----
(***************************************************************************)
(* State-machine model of src/main.py: the webhook fan-out (webhook,       *)
(* get_current_price, calculate_quantity, map_symbol, decrypt_key) and the *)
(* Celery task process_order (validate_order, the exchange call, log_trade *)
(* and self.retry).                                                        *)
(*                                                                         *)
(* Conventions.  Quantities are integers in units of 1e-8 (the precision   *)
(* of round(quantity, 8)).  Times are in seconds.  A symbol is a string;   *)
(* Split gives its '/'-separated parts.                                    *)
(*                                                                         *)
(* What the exchange gateway (ccxt) replies is an input of the step that   *)
(* calls it: a ticker or an exception, the markets dict (keyed by the      *)
(* unified symbols, with or without the slashless pair strings), the       *)
(* balance dict (keyed by currency codes, with or without the pair         *)
(* string), and the outcome of an order call.  The 60 s countdown of a     *)
(* retry is not modelled: a retried job may start at any later step.       *)
(*                                                                         *)
(* Spec is the whole system.  SpecFanout is the fan-out by itself over     *)
(* every list of subscribers; SpecExec is the workers fed by well-formed   *)
(* signals; SpecLanes is SpecExec with the workers of the take_profit lane *)
(* scheduled fairly.  The properties are stated under one of these three.  *)
(***************************************************************************)
EXTENDS Integers, Sequences, FiniteSets, Bags, TLC

VARIABLES
    users,      \* rows of users.db with subscribed = 1, in SELECT order
    cache,      \* redis: cache key -> [price, ttl (seconds left), age]
    jobs,       \* every process_order message ever sent, in order of sending
    trades,     \* the bag of rows of trading_data.db.trades (log_trade)
    resp        \* what the last webhook call did and returned

vars == <<users, cache, jobs, trades, resp>>

----------------------------------------------------------------------------
\* Bounds of the model.
MaxUsers == 2
MaxJobs == 2
WorkersPerLane == 1
TickLen == 10

\* Constants of the program.
MaxRetries == 5
EntryTtl == 30
TpTtl == 10
QtyScale == 100000000
MinQuantity == 10000
AllocationDen == 10

----------------------------------------------------------------------------
\* Strings of the program.

BuyFib1 == "Buy Fib 1"
TpFib1 == "TP Fib 1"
CloseAll == "Close-all on first TP fill"
Actions == {BuyFib1, TpFib1, CloseAll}

\* action.startswith('Buy'), ('Buy Fib'), ('TP Fib') on the actions above.
StartsWithBuy(action) == action \in {BuyFib1}
StartsWithBuyFib(action) == action \in {BuyFib1}
StartsWithTPFib(action) == action \in {TpFib1}

\* symbol.split('/'): the pairs the program handles hold no '/'.
Split(symbol) ==
    CASE symbol = "BTC/USDT" -> <<"BTC", "USDT">>
      [] symbol = "BTC/USDC" -> <<"BTC", "USDC">>
      [] OTHER -> <<symbol>>

\* The exchange classes ccxt provides (getattr(ccxt, exchange) succeeds).
CcxtExchanges == {"binance", "kraken", "bybit", "kucoin", "coinbase"}

\* decrypt_key: the plaintext, or "" (None) when Fernet rejects the token.
DecryptKey(encrypted_data) ==
    CASE encrypted_data = "enc:ka" -> "ka"
      [] encrypted_data = "enc:sa" -> "sa"
      [] encrypted_data = "enc:kb" -> "kb"
      [] encrypted_data = "enc:sb" -> "sb"
      [] encrypted_data = "enc:kd" -> "kd"
      [] encrypted_data = "enc:sd" -> "sd"
      [] OTHER -> ""

\* map_symbol
ExchangePairs(exchange) ==
    CASE exchange = "binance" -> {"BTCUSDT", "BTCUSDC"}
      [] exchange = "coinlion" -> {"BTCUSDC"}
      [] exchange = "kraken" -> {"BTCUSD", "BTCUSDC"}
      [] exchange = "bybit" -> {"BTCUSDT", "BTCUSDC"}
      [] exchange = "kucoin" -> {"BTCUSDT", "BTCUSDC"}
      [] exchange = "coinbase" -> {"BTCUSD", "BTCUSDC"}
      [] OTHER -> {}

MapSymbol(exchange, preferred_pair, base_symbol) ==
    IF preferred_pair \in ExchangePairs(exchange) THEN preferred_pair ELSE base_symbol

----------------------------------------------------------------------------
\* calculate_quantity

Max(a, b) == IF a >= b THEN a ELSE b

\* round(n / d) to the nearest integer, ties to even (Python's round).
RoundHalfEven(n, d) ==
    LET q == n \div d
        r == n % d
    IN  IF 2 * r < d THEN q
        ELSE IF 2 * r > d THEN q + 1
        ELSE IF q % 2 = 0 THEN q ELSE q + 1

\* max(round(capital * 0.1 / price, 8), 0.0001), in units of 1e-8.
CalculateQuantity(capital, price) ==
    Max(RoundHalfEven(capital * QtyScale, AllocationDen * price), MinQuantity)

----------------------------------------------------------------------------
\* The subscriber rows the model draws users.db from.

Alice == [user_id |-> "alice", api_key |-> "enc:ka", api_secret |-> "enc:sa",
          exchange |-> "binance", initial_capital |-> 10, preferred_pair |-> "BTCUSDT"]
Bob   == [user_id |-> "bob", api_key |-> "enc:kb", api_secret |-> "enc:sb",
          exchange |-> "binance", initial_capital |-> 10, preferred_pair |-> "BTCUSD"]
Carol == [user_id |-> "carol", api_key |-> "stale", api_secret |-> "stale",
          exchange |-> "binance", initial_capital |-> 10, preferred_pair |-> "BTCUSDT"]
Dave  == [user_id |-> "dave", api_key |-> "enc:kd", api_secret |-> "enc:sd",
          exchange |-> "coinlion", initial_capital |-> 10, preferred_pair |-> "BTCUSDC"]
UserPool == {Alice, Bob, Carol, Dave}

UserLists ==
    {us \in UNION {[1..n -> UserPool] : n \in 0..MaxUsers} :
        \A i, j \in DOMAIN us : i # j => us[i].user_id # us[j].user_id}

Prices == {100, 105}
Exchanges == {u.exchange : u \in UserPool}
Symbols == {"BTCUSDT", "BTCUSDC"}
CacheKeys == Exchanges \X Symbols
NoEntry == [price |-> 0, ttl |-> 0, age |-> 0]

----------------------------------------------------------------------------
\* The inbound signal: the JSON object of the request.  present is the set
\* of keys it holds; data.get(k) is None for a key it does not hold.

AllFields == {"symbol", "action", "price", "takeProfit"}
BasePrices == {0, 100}
BaseTakeProfits == {110}
WellFormed ==
    [present : {AllFields}, symbol : {"BTCUSDT"}, action : Actions,
     price : BasePrices, takeProfit : BaseTakeProfits]
Malformed ==
    [present : {AllFields \ {f} : f \in AllFields}, symbol : {"BTCUSDT"},
     action : {BuyFib1}, price : {100}, takeProfit : BaseTakeProfits]
        \cup [present : {AllFields}, symbol : {"ETHUSDT"}, action : {BuyFib1},
              price : {100}, takeProfit : BaseTakeProfits]
Signals == WellFormed \cup Malformed

\* What fetch_ticker does for one subscriber: a ticker, or an exception.
TickerReplies == [ok : {TRUE}, last : Prices] \cup [ok : {FALSE}, last : {0}]
NoReply == [ok |-> FALSE, last |-> 0]

\* Projected prices: the entry price in whole units, the take-profit in
\* thousandths (115.5 is 115500).
MilliScale == 10 * 10 * 10
AdjustedPrice(base_price, current_price) ==
    (base_price * current_price) \div base_price
AdjustedTakeProfit(base_take_profit, base_price, current_price) ==
    (base_take_profit * current_price * MilliScale) \div base_price

\* get_current_price without the read of the cache: the ticker is fetched
\* and stored at every call.
GetCurrentPriceUncached(exchange, symbol, cache_ttl, reply, c) ==
    LET cache_key == <<exchange, symbol>> IN
    IF exchange \notin CcxtExchanges
    THEN [kind |-> "raise", price |-> 0, called |-> FALSE, cache |-> c]
    ELSE IF reply.ok
    THEN [kind |-> "price", price |-> reply.last, called |-> TRUE,
          cache |-> [c EXCEPT ![cache_key] =
                        [price |-> reply.last, ttl |-> cache_ttl, age |-> 0]]]
    ELSE [kind |-> "none", price |-> 0, called |-> TRUE, cache |-> c]

\* get_current_price: kind is "price" (a price is returned), "none" (None is
\* returned) or "raise" (an exception leaves the function); called is
\* whether client.fetch_ticker was called.
GetCurrentPrice(exchange, symbol, cache_ttl, reply, c) ==
    LET cache_key == <<exchange, symbol>> IN
    IF c[cache_key].ttl > 0
    THEN [kind |-> "price", price |-> c[cache_key].price, called |-> FALSE, cache |-> c]
    ELSE IF exchange \notin CcxtExchanges
    THEN [kind |-> "raise", price |-> 0, called |-> FALSE, cache |-> c]
    ELSE IF reply.ok
    THEN [kind |-> "price", price |-> reply.last, called |-> TRUE,
          cache |-> [c EXCEPT ![cache_key] =
                        [price |-> reply.last, ttl |-> cache_ttl, age |-> 0]]]
    ELSE [kind |-> "none", price |-> 0, called |-> TRUE, cache |-> c]

\* queue = 'take_profit' if action.startswith('TP Fib') else 'default'
QueueFor(action) == IF StartsWithTPFib(action) THEN "take_profit" ELSE "default"

CacheTtlFor(action) == IF StartsWithTPFib(action) THEN TpTtl ELSE EntryTtl

NoJob == [user_id |-> "", exchange |-> "", api_key |-> "", api_secret |-> "",
          symbol |-> "", action |-> "", price |-> 0, take_profit |-> 0,
          quantity |-> 0, lane |-> "", retries |-> 0, state |-> "",
          verdict |-> "", err |-> "", calls |-> 0, only_transient |-> TRUE]

\* str(e) of the exceptions that reach the outer except of webhook.
FloatOfNone == "float() argument must be a string or a real number, not 'NoneType'"
NoStartswith == "'NoneType' object has no attribute 'startswith'"
NoExchangeClass == "module 'ccxt' has no attribute"
DivisionByZero == "float division by zero"

\* One iteration of the loop over users: kind is "job" (apply_async was
\* called), "skip" (continue) or "raise" (an exception leaves the loop,
\* error is its text);
\* lookups holds what the call of get_current_price did, if it was made:
\* the entry of the key before and after, the ttl passed, whether
\* fetch_ticker was called and what it replied, and what was returned.
ProcessUser(user, sig, reply, c) ==
    LET api_key == DecryptKey(user.api_key)
        api_secret == DecryptKey(user.api_secret)
        symbol == MapSymbol(user.exchange, user.preferred_pair, sig.symbol)
        got == GetCurrentPrice(user.exchange, symbol, CacheTtlFor(sig.action), reply, c)
        quantity == CalculateQuantity(user.initial_capital, got.price)
        looked == <<[user_id |-> user.user_id, key |-> <<user.exchange, symbol>>,
                     ttl |-> CacheTtlFor(sig.action),
                     before |-> c[<<user.exchange, symbol>>],
                     called |-> got.called,
                     fetched |-> IF got.called THEN reply ELSE NoReply,
                     kind |-> got.kind, price |-> got.price,
                     after |-> got.cache[<<user.exchange, symbol>>]]>>
    IN  IF api_key = "" \/ api_secret = ""
        THEN [kind |-> "skip", error |-> "", cache |-> c, job |-> NoJob,
              lookups |-> <<>>]
        ELSE IF "action" \notin sig.present
        THEN [kind |-> "raise", error |-> NoStartswith, cache |-> c, job |-> NoJob,
              lookups |-> <<>>]
        ELSE IF got.kind = "raise"
        THEN [kind |-> "raise", error |-> NoExchangeClass, cache |-> got.cache,
              job |-> NoJob, lookups |-> looked]
        ELSE IF got.kind = "none"
        THEN [kind |-> "skip", error |-> "", cache |-> got.cache, job |-> NoJob,
              lookups |-> looked]
        ELSE IF sig.price = 0
        THEN [kind |-> "raise", error |-> DivisionByZero, cache |-> got.cache,
              job |-> NoJob, lookups |-> looked]
        ELSE IF quantity <= 0
        THEN [kind |-> "skip", error |-> "", cache |-> got.cache, job |-> NoJob,
              lookups |-> looked]
        ELSE [kind |-> "job", error |-> "", cache |-> got.cache, lookups |-> looked,
              job |-> [user_id |-> user.user_id, exchange |-> user.exchange,
                       api_key |-> api_key, api_secret |-> api_secret,
                       symbol |-> symbol, action |-> sig.action,
                       price |-> AdjustedPrice(sig.price, got.price),
                       take_profit |->
                           AdjustedTakeProfit(sig.takeProfit, sig.price, got.price),
                       quantity |-> quantity, lane |-> QueueFor(sig.action),
                       retries |-> 0, state |-> "queued", verdict |-> "",
                       err |-> "", calls |-> 0, only_transient |-> TRUE]]

\* Whether the loop goes on to the next subscriber after an iteration.
LoopContinues(kind) == kind # "raise"

\* for user in users: ... ; acc is [cache, out, raised, error, lookups].
RECURSIVE FanOut(_, _, _, _, _)
FanOut(us, i, sig, fetch, acc) ==
    IF i > Len(us) \/ acc.raised THEN acc
    ELSE LET r == ProcessUser(us[i], sig, fetch[i], acc.cache) IN
         FanOut(us, i + 1, sig, fetch,
                [cache |-> r.cache,
                 out |-> IF r.kind = "job" THEN Append(acc.out, r.job) ELSE acc.out,
                 raised |-> ~LoopContinues(r.kind),
                 error |-> r.error,
                 lookups |-> acc.lookups \o r.lookups])

\* The subscribers of a call whose own credential resolution, price lookup
\* and projection succeed, each taken by itself in list order.
RECURSIVE Eligible(_, _, _, _, _)
Eligible(us, i, sig, fetch, c) ==
    IF i > Len(us) THEN {}
    ELSE LET r == ProcessUser(us[i], sig, fetch[i], c) IN
         (IF r.kind = "job" THEN {us[i].user_id} ELSE {})
            \cup Eligible(us, i + 1, sig, fetch, r.cache)

\* webhook without the test of the list of subscribers.
WebhookResultNoUsersTest(sig, fetch, us, c) ==
    IF "symbol" \notin sig.present \/ sig.symbol # "BTCUSDT"
    THEN [status |-> 400, body |-> "invalid_symbol", fanout |-> FALSE, cache |-> c,
          out |-> <<>>, lookups |-> <<>>]
    ELSE IF "price" \notin sig.present \/ "takeProfit" \notin sig.present
    THEN [status |-> 500, body |-> FloatOfNone, fanout |-> FALSE, cache |-> c,
          out |-> <<>>, lookups |-> <<>>]
    ELSE LET r == FanOut(us, 1, sig, fetch,
                         [cache |-> c, out |-> <<>>, raised |-> FALSE, error |-> "",
                          lookups |-> <<>>])
         IN  [status |-> IF r.raised THEN 500 ELSE 200,
              body |-> IF r.raised THEN r.error ELSE "processed",
              fanout |-> TRUE, cache |-> r.cache, out |-> r.out, lookups |-> r.lookups]

\* The body of webhook: status is the HTTP status returned and body names
\* the text returned with it ("invalid_symbol", "no_users", "processed" or,
\* from the outer except, the text of the exception); fanout is whether
\* the loop over the subscribers was entered.
WebhookResult(sig, fetch, us, c) ==
    IF "symbol" \notin sig.present \/ sig.symbol # "BTCUSDT"
    THEN [status |-> 400, body |-> "invalid_symbol", fanout |-> FALSE, cache |-> c,
          out |-> <<>>, lookups |-> <<>>]
    ELSE IF "price" \notin sig.present \/ "takeProfit" \notin sig.present
    THEN [status |-> 500, body |-> FloatOfNone, fanout |-> FALSE, cache |-> c,
          out |-> <<>>, lookups |-> <<>>]
    ELSE IF Len(us) = 0
    THEN [status |-> 400, body |-> "no_users", fanout |-> FALSE, cache |-> c,
          out |-> <<>>, lookups |-> <<>>]
    ELSE LET r == FanOut(us, 1, sig, fetch,
                         [cache |-> c, out |-> <<>>, raised |-> FALSE, error |-> "",
                          lookups |-> <<>>])
         IN  [status |-> IF r.raised THEN 500 ELSE 200,
              body |-> IF r.raised THEN r.error ELSE "processed",
              fanout |-> TRUE, cache |-> r.cache, out |-> r.out, lookups |-> r.lookups]

\* Whether a signal passes the ingress validation the specification asks
\* for: every field present, a supported symbol, positive numbers.
WellFormedSignal(sig) ==
    /\ sig.present = AllFields
    /\ sig.symbol = "BTCUSDT"
    /\ sig.price > 0
    /\ sig.takeProfit > 0

\* resp observes the last call: the status returned, whether its signal was
\* well formed, the subscribers a job was sent for, those of Eligible, the
\* text returned and the calls of get_current_price.
NoResp == [status |-> 0, valid |-> FALSE, enqueued |-> {}, eligible |-> {},
           body |-> "", lookups |-> <<>>]

Webhook(sig, fetch) ==
    LET r == WebhookResult(sig, fetch, users, cache) IN
    /\ Len(jobs) + Len(r.out) <= MaxJobs
    /\ jobs' = jobs \o r.out
    /\ cache' = r.cache
    /\ resp' = [status |-> r.status, valid |-> WellFormedSignal(sig),
                enqueued |-> {r.out[k].user_id : k \in DOMAIN r.out},
                eligible |-> IF r.fanout
                             THEN Eligible(users, 1, sig, fetch, cache) ELSE {},
                body |-> r.body, lookups |-> r.lookups]
    /\ UNCHANGED <<users, trades>>

\* TickLen seconds pass: redis ages its entries and drops the expired ones.
Tick ==
    /\ \E k \in CacheKeys : cache[k].ttl > 0
    /\ cache' = [k \in CacheKeys |->
                    IF cache[k].ttl > TickLen
                    THEN [price |-> cache[k].price, ttl |-> cache[k].ttl - TickLen,
                          age |-> cache[k].age + TickLen]
                    ELSE NoEntry]
    /\ UNCHANGED <<users, jobs, trades, resp>>

Init ==
    /\ users \in UserLists
    /\ cache = [k \in CacheKeys |-> NoEntry]
    /\ jobs = <<>>
    /\ trades = EmptyBag
    /\ resp = NoResp

----------------------------------------------------------------------------
\* process_order.  A job carries the arguments of the task, the lane its
\* message is in, request.retries, and what its attempts did: verdict (the
\* branch validate_order took in the last attempt), err (how the exchange
\* call of the last attempt failed), calls (the exchange calls that placed
\* or cancelled orders) and only_transient (no attempt so far ended other
\* than in a network error or timeout).  A job's state is "queued" (a message in its lane),
\* "validating" (a worker runs validate_order), "placing" (validation
\* passed, the exchange call is next), "returned" (the task returned) or
\* "failed" (an exception left the task and no retry is scheduled).

\* What load_markets replies: an exception, or the markets (the symbols that
\* key the dict, and the minimum amount of each).
UnifiedSymbols == {"BTC/USDT", "BTC/USDC"}
MinAmounts == {1000, 2000000}
MarketReplies ==
    [error : {TRUE}, symbols : {{}}, min : {0}]
        \cup [error : {FALSE},
              symbols : {UnifiedSymbols, UnifiedSymbols \cup Symbols},
              min : MinAmounts]

\* What fetch_balance replies: an exception, or the free amount per key.
FreeAmounts == {0, QtyScale}
BalanceKeySets == {{"BTC", "USDT"}, {"BTC", "USDT", "BTCUSDT"}}
BalanceReplies ==
    [error : {TRUE}, free : {[k \in {} |-> 0]}]
        \cup [error : {FALSE},
              free : {[k \in ks |-> a] : ks \in BalanceKeySets, a \in FreeAmounts}]

\* validate_order: ok is the value returned; why names the branch taken
\* (the message logged): "valid", "below_min", "insufficient", "network"
\* (load_markets or fetch_balance raised) or "lookup" (KeyError on
\* markets[symbol], IndexError on symbol.split('/')[1]).
ValidateOrder(symbol, quantity, price, action, markets, balance) ==
    IF markets.error THEN [ok |-> FALSE, why |-> "network"]
    ELSE IF symbol \notin markets.symbols THEN [ok |-> FALSE, why |-> "lookup"]
    ELSE IF quantity < markets.min THEN [ok |-> FALSE, why |-> "below_min"]
    ELSE IF balance.error THEN [ok |-> FALSE, why |-> "network"]
    ELSE IF StartsWithBuy(action) /\ Len(Split(symbol)) < 2
    THEN [ok |-> FALSE, why |-> "lookup"]
    ELSE LET base_currency == IF StartsWithBuy(action)
                              THEN Split(symbol)[2] ELSE Split(symbol)[1]
             available == IF base_currency \in DOMAIN balance.free
                          THEN balance.free[base_currency] ELSE 0
             required == IF StartsWithBuy(action) THEN quantity * price ELSE quantity
         IN  IF available < required
             THEN [ok |-> FALSE, why |-> "insufficient"]
             ELSE [ok |-> TRUE, why |-> "valid"]

\* Running with one pool of workers that takes the messages of both lanes.
RunningAnyLane(lane) ==
    {j \in DOMAIN jobs : jobs[j].state \in {"validating", "placing"}}

\* The jobs the workers of a lane are running: each lane has its own pool.
Running(lane) ==
    {j \in DOMAIN jobs : jobs[j].lane = lane /\ jobs[j].state \in {"validating", "placing"}}

\* A worker of the job's lane takes the message and calls the task.
StartJob(j) ==
    /\ jobs[j].state = "queued"
    /\ Cardinality(Running(jobs[j].lane)) < WorkersPerLane
    /\ jobs' = [jobs EXCEPT ![j].state = "validating", ![j].verdict = "", ![j].err = ""]
    /\ UNCHANGED <<users, cache, trades, resp>>

\* AfterValidation without the return: a rejected job goes on to its call.
AfterValidationFallsThrough(job, v) ==
    [job EXCEPT !.verdict = v.why,
                !.state = "placing",
                !.only_transient = @ /\ (v.ok \/ v.why = "network")]

\* if not await validate_order(...): return
AfterValidation(job, v) ==
    [job EXCEPT !.verdict = v.why,
                !.state = IF v.ok THEN "placing" ELSE "returned",
                !.only_transient = @ /\ (v.ok \/ v.why = "network")]

ValidateStep(j, markets, balance) ==
    /\ jobs[j].state = "validating"
    /\ jobs' = [jobs EXCEPT ![j] =
                  AfterValidation(@, ValidateOrder(@.symbol, @.quantity, @.price,
                                                   @.action, markets, balance))]
    /\ UNCHANGED <<users, cache, trades, resp>>

\* What an order-placing or cancelling call does: "ok"; "network" (a
\* network error or a timeout: the call raised); "rejected" (the exchange
\* refused the price or the quantity and the call raised).
CallOutcomes == {"ok", "network", "rejected"}

\* RetryLane taking the queue the task is declared with (queue='default').
RetryLaneDeclared(job) == "default"

\* The lane a message sent by self.retry goes to: Celery re-sends a task to
\* the exchange and routing key it was delivered on.
RetryLane(job) == job.lane

\* raise self.retry(countdown=60) with max_retries=5
Retry(job) ==
    IF job.retries + 1 > MaxRetries
    THEN [job EXCEPT !.state = "failed"]
    ELSE [job EXCEPT !.state = "queued", !.retries = @ + 1, !.lane = RetryLane(job)]

\* Whether the action has an exchange call in process_order.
HasCall(action) == StartsWithBuyFib(action) \/ StartsWithTPFib(action) \/ action = CloseAll

\* The exchange call of the action, then log_trade, or the except branch.
AfterCall(job, outcome) ==
    LET called == [job EXCEPT !.calls = IF outcome = "ok" THEN @ + 1 ELSE @,
                              !.err = CASE outcome = "ok" -> ""
                                        [] outcome = "rejected" -> "rejected"
                                        [] OTHER -> "transient",
                              !.only_transient = @ /\ outcome = "network"]
    IN  IF outcome = "ok" THEN [called EXCEPT !.state = "returned"] ELSE Retry(called)

TradeRow(job) ==
    [user_id |-> job.user_id, exchange |-> job.exchange, symbol |-> job.symbol,
     action |-> job.action, price |-> job.price, adjusted_price |-> job.take_profit,
     quantity |-> job.quantity]

\* log_trade: the INSERT, or an exception that is logged and dropped.
LogTrade(job, db_ok) == IF db_ok THEN trades (+) SetToBag({TradeRow(job)}) ELSE trades

PlaceStep(j, outcome, db_ok) ==
    /\ jobs[j].state = "placing"
    /\ HasCall(jobs[j].action)
    /\ jobs' = [jobs EXCEPT ![j] = AfterCall(@, outcome)]
    /\ trades' = IF outcome = "ok" THEN LogTrade(jobs[j], db_ok) ELSE trades
    /\ UNCHANGED <<users, cache, resp>>

Next ==
    \/ \E sig \in Signals, fetch \in [1..Len(users) -> TickerReplies] : Webhook(sig, fetch)
    \/ Tick
    \/ \E j \in DOMAIN jobs : StartJob(j)
    \/ \E j \in DOMAIN jobs, m \in MarketReplies, b \in BalanceReplies :
          ValidateStep(j, m, b)
    \/ \E j \in DOMAIN jobs, o \in CallOutcomes, db_ok \in BOOLEAN : PlaceStep(j, o, db_ok)

Spec == Init /\ [][Next]_vars

----------------------------------------------------------------------------
\* The fan-out by itself: webhook calls and the passing of time, for every
\* list of subscribers.  The workers read and write nothing webhook reads.
\* webhook treats a Close-all signal as it does an entry signal (ttl 30,
\* lane default), so the fan-out is driven by the other two actions.
FanoutSignals == {sig \in Signals : sig.action # CloseAll}

NextFanout ==
    \/ \E sig \in FanoutSignals, fetch \in [1..Len(users) -> TickerReplies] :
          Webhook(sig, fetch)
    \/ Tick

SpecFanout == Init /\ [][NextFanout]_vars

\* The workers: process_order reads its arguments alone, so the jobs come
\* from well-formed signals priced without failure.
ExecUserLists == {<<Alice>>, <<Alice, Bob>>}
ExecSignals == {sig \in WellFormed : sig.price > 0}
ExecReplies == [ok : {TRUE}, last : {100}]

InitExec == Init /\ users \in ExecUserLists

NextExec ==
    \/ \E sig \in ExecSignals, fetch \in [1..Len(users) -> ExecReplies] : Webhook(sig, fetch)
    \/ \E j \in DOMAIN jobs : StartJob(j)
    \/ \E j \in DOMAIN jobs, m \in MarketReplies, b \in BalanceReplies :
          ValidateStep(j, m, b)
    \/ \E j \in DOMAIN jobs, o \in CallOutcomes, db_ok \in BOOLEAN : PlaceStep(j, o, db_ok)

SpecExec == InitExec /\ [][NextExec]_vars

\* The workers with the take_profit lane scheduled fairly: a worker of that
\* lane that can take a message does so, and a task it runs goes on to its
\* next step.  Nothing is asked of the default lane, whose workers may stay
\* in a task for ever.
TpStart(j) == j \in DOMAIN jobs /\ jobs[j].lane = "take_profit" /\ StartJob(j)
TpValidate(j) ==
    /\ j \in DOMAIN jobs
    /\ jobs[j].lane = "take_profit"
    /\ \E m \in MarketReplies, b \in BalanceReplies : ValidateStep(j, m, b)
TpPlace(j) ==
    /\ j \in DOMAIN jobs
    /\ jobs[j].lane = "take_profit"
    /\ \E o \in CallOutcomes, db_ok \in BOOLEAN : PlaceStep(j, o, db_ok)
FairTakeProfit ==
    \A j \in 1..MaxJobs :
        WF_vars(TpStart(j)) /\ WF_vars(TpValidate(j)) /\ WF_vars(TpPlace(j))

SpecLanes == InitExec /\ [][NextExec]_vars /\ FairTakeProfit

----------------------------------------------------------------------------
\* Properties.

Executing(j) == jobs[j].state \in {"validating", "placing"}
Terminal(j) == jobs[j].state \in {"returned", "failed"}
SameScope(i, j) ==
    jobs[i].user_id = jobs[j].user_id /\ jobs[i].symbol = jobs[j].symbol
Succeeded(j) ==
    jobs[j].state = "returned" /\ jobs[j].verdict = "valid" /\ jobs[j].err = ""
RejectedByValidation(j) == jobs[j].verdict \in {"below_min", "insufficient"}

\* C1: in a fan-out, every subscriber whose own credential resolution, price
\* lookup and projection succeed gets a job, whichever other subscriber of
\* the list fails and wherever the failing one stands in the list.
C1_FailureIsolated == resp.eligible \subseteq resp.enqueued

\* C2: for a well-formed signal and a non-empty subscriber list, the jobs
\* sent are exactly one per subscriber whose credential resolution, price
\* lookup and projection succeed, and webhook returns normally (200).
C2_JobCountMatches ==
    (resp.valid /\ Len(users) > 0) =>
        /\ Cardinality(resp.enqueued) = Cardinality(resp.eligible)
        /\ resp.enqueued = resp.eligible
        /\ resp.status = 200

\* C3: no two jobs of the same subscriber and symbol are executing (between
\* the start of validation and the end of the exchange call and ledger
\* write) at the same time, in whichever lanes they are.
C3_MutualExclusion ==
    \A i, j \in DOMAIN jobs :
        (i # j /\ Executing(i) /\ Executing(j)) => ~SameScope(i, j)

\* C4: a job that is over and whose every attempt ended in a transient
\* failure was retried MaxRetries times and is recorded as failed (the
\* dead-letter record), once.
C4_BoundedRetry ==
    \A j \in DOMAIN jobs :
        (Terminal(j) /\ jobs[j].only_transient) =>
            (jobs[j].retries = MaxRetries /\ jobs[j].state = "failed")

\* The entry action never reaches its exchange call: validate_order takes
\* symbol.split('/')[1] of a symbol that holds no '/'.
EntryNeverPlaces ==
    \A j \in DOMAIN jobs :
        StartsWithBuy(jobs[j].action) => (jobs[j].state # "placing" /\ jobs[j].calls = 0)

\* C6: two take-profit-update jobs of one subscriber and symbol with the
\* same requested take-profit, both executed with success, make one set of
\* exchange calls between them: the second makes none.
C6_SameTpOnce ==
    \A i, j \in DOMAIN jobs :
        (i < j /\ SameScope(i, j)
           /\ StartsWithTPFib(jobs[i].action) /\ StartsWithTPFib(jobs[j].action)
           /\ jobs[i].take_profit = jobs[j].take_profit
           /\ Succeeded(i) /\ Succeeded(j))
        => jobs[i].calls + jobs[j].calls = 1

\* C7: once a Close-all job has succeeded for a subscriber and symbol, no
\* later signal sends a job with another action for that subscriber and
\* symbol (nothing in the program sets trade_active back).
C7_ClosedScopeStaysIdle ==
    [][\A k \in DOMAIN jobs' :
          (k \notin DOMAIN jobs /\ jobs'[k].action # CloseAll) =>
              ~\E i \in DOMAIN jobs :
                  /\ jobs[i].action = CloseAll
                  /\ Succeeded(i)
                  /\ jobs[i].user_id = jobs'[k].user_id
                  /\ jobs[i].symbol = jobs'[k].symbol]_vars

\* C8: a job that validation rejects (quantity below the minimum, or
\* balance too small) is over: it has placed or cancelled no order and no
\* retry of it is scheduled.
C8_RejectionIsFinal ==
    \A j \in DOMAIN jobs :
        RejectedByValidation(j) =>
            (jobs[j].state = "returned" /\ jobs[j].calls = 0)

C8_Witness ==
    \E j, k \in DOMAIN jobs :
        /\ jobs[j].verdict = "below_min" /\ jobs[j].state = "returned"
        /\ jobs[k].verdict = "insufficient" /\ jobs[k].state = "returned"
        /\ jobs[k].retries > 0

\* C9: an attempt that failed on a network error or timeout (in validation
\* or in the exchange call) is followed by a retry, and an attempt whose
\* exchange call the gateway rejected is followed by none.
RetryScheduled(j) ==
    jobs[j].state = "queued" \/ (jobs[j].state = "failed" /\ jobs[j].retries = MaxRetries)
C9_RetryIffTransient ==
    \A j \in DOMAIN jobs :
        /\ (jobs[j].verdict = "network" \/ jobs[j].err = "transient") => RetryScheduled(j)
        /\ jobs[j].err = "rejected" => jobs[j].state # "queued"

\* C10: a queued job is in the take_profit lane if its action is a
\* take-profit update and in the default lane otherwise, when webhook sends
\* it and after every retry.
C10_LaneByAction ==
    \A j \in DOMAIN jobs :
        jobs[j].state = "queued" =>
            jobs[j].lane = (IF jobs[j].action = TpFib1 THEN "take_profit" ELSE "default")

C10_Witness ==
    \E j, k \in DOMAIN jobs :
        /\ jobs[j].action = TpFib1 /\ jobs[j].state = "queued" /\ jobs[j].retries > 0
        /\ jobs[k].action # TpFib1 /\ jobs[k].state = "queued" /\ jobs[k].retries > 0

C12_MalformedRejected ==
    (resp.status # 0 /\ ~resp.valid) =>
        /\ resp.status # 200
        /\ resp.lookups = <<>>
        /\ resp.enqueued = {}

\* C13: with no subscribed user, a call with a well-formed signal returns
\* the no-subscribers result (400, "Brak uzytkownikow"), calls
\* get_current_price for no one, leaves the cache as it was and sends no
\* job.
C13_NoSubscribers ==
    (Len(users) = 0 /\ resp.valid) =>
        /\ resp.status = 400 /\ resp.body = "no_users"
        /\ resp.lookups = <<>>
        /\ resp.enqueued = {}
        /\ cache = [k \in CacheKeys |-> NoEntry]
        /\ jobs = <<>>

C13_Witness == Len(users) = 0 /\ resp.valid /\ resp.body = "no_users"

\* What one call of get_current_price must have done, l being its record.
LookupHit(l) == l.before.ttl > 0
LookupRight(l) ==
    IF LookupHit(l)
    THEN /\ ~l.called
         /\ l.kind = "price" /\ l.price = l.before.price
         /\ l.after = l.before
    ELSE /\ l.called \/ l.kind = "raise"
         /\ IF l.called /\ l.fetched.ok
            THEN /\ l.kind = "price" /\ l.price = l.fetched.last
                 /\ l.after = [price |-> l.fetched.last, ttl |-> l.ttl, age |-> 0]
            ELSE l.kind # "price" /\ l.after = l.before

\* The entry of a key after TickLen seconds.
Aged(e) ==
    IF e.ttl > TickLen
    THEN [price |-> e.price, ttl |-> e.ttl - TickLen, age |-> e.age + TickLen]
    ELSE NoEntry

C20_PriceFreshForTtl ==
    \A i \in DOMAIN resp.lookups :
        (resp.lookups[i].kind = "price" /\ LookupHit(resp.lookups[i]))
            => resp.lookups[i].before.age <= resp.lookups[i].ttl

\* The jobs whose last attempt ended in success or in a permanent failure
\* (rejected by validation or by the exchange).
Settled(j) ==
    \/ Succeeded(j)
    \/ jobs[j].state = "returned" /\ RejectedByValidation(j)
    \/ Terminal(j) /\ jobs[j].err = "rejected"

\* C15: the ledger holds one row for every job that ended in success or in
\* a permanent failure, the row of that job, and none for an attempt that
\* ended in a transient failure.
C15_OneLedgerWritePerOutcome ==
    /\ BagCardinality(trades) = Cardinality({j \in DOMAIN jobs : Settled(j)})
    /\ \A j \in DOMAIN jobs : Settled(j) => BagIn(TradeRow(jobs[j]), trades)

\* The plaintexts of the keys and secrets of the subscribers.
RawSecrets ==
    ({DecryptKey(u.api_key) : u \in UserPool}
        \cup {DecryptKey(u.api_secret) : u \in UserPool}) \ {""}

\* C17: no message in a queue of the broker and no row of the ledger holds
\* the plaintext of an API key or secret.
C17_NoRawSecretStored ==
    /\ \A j \in DOMAIN jobs :
          jobs[j].api_key \notin RawSecrets /\ jobs[j].api_secret \notin RawSecrets
    /\ \A row \in BagToSet(trades) :
          {row.user_id, row.exchange, row.symbol, row.action} \cap RawSecrets = {}

\* C18: every job sent has a quantity above zero that is not below the
\* minimum amount its exchange reports for the symbol (the quantity is
\* max(round(C * f / P1, 8), Qmin) with Qmin that minimum): validate_order,
\* which reads the minimum from load_markets, finds no job below it.
C18_QuantityAtLeastExchangeMin ==
    \A j \in DOMAIN jobs :
        /\ jobs[j].quantity > 0
        /\ jobs[j].verdict # "below_min"

\* The jobs the last call of webhook sent.
LastJobs == {k \in DOMAIN jobs : k > Len(jobs) - Cardinality(resp.enqueued)}

\* Every job of the last call carries the price its subscriber's lookup
\* returned (P1) and the take-profit TP0 * P1 / P0 of a signal.
ProjectedByRatio ==
    \A k \in LastJobs, i \in DOMAIN resp.lookups :
        resp.lookups[i].user_id = jobs[k].user_id =>
            /\ jobs[k].price = resp.lookups[i].price
            /\ \E p0 \in BasePrices \ {0}, tp0 \in BaseTakeProfits :
                  jobs[k].take_profit
                      = (tp0 * resp.lookups[i].price * MilliScale) \div p0

\* C19: a job carries the live price P1 as its entry price and
\* TP0 * P1 / P0 as its take-profit, and a signal with P0 = 0 gets no job
\* without a division error being raised.
C19_ProjectionNoDivisionError ==
    /\ ProjectedByRatio
    /\ resp.body # DivisionByZero

\* The example of the claim: P0 = 100, TP0 = 110, P1 = 105 give 105, 115.5.
RatioExample ==
    \E k \in LastJobs : jobs[k].price = 105 /\ jobs[k].take_profit = 115500

====
